---- MODULE Spec2Model ----
(***************************************************************************)
(* Model of src/flows/flow.py: the condition-code normalizer, the combo     *)
(* splitter, the crosswalk expansion, the sub-requirement criteria builder  *)
(* and the eligibility decision.  Python strings are TLA+ strings; the      *)
(* character at position i of s is SubSeq(s, i, i).                         *)
(***************************************************************************)
EXTENDS Integers, Sequences, FiniteSets, TLC

VARIABLES
  pc,                \* position of the task under study
  value,             \* argument of replace_ps_code_with_dars_code / split_gold_and_maroon_combos
  normalized,        \* replace_ps_code_with_dars_code(value)
  renormalized,      \* replace_ps_code_with_dars_code(normalized)
  combos,            \* split_gold_and_maroon_combos(value)
  ps_req_des,        \* the crosswalk CSV as read: rows (designation, expression)
  ps_cw,             \* import_course_crosswalk's result
  raw,               \* one raw sub-requirement row as returned by query_sub_requirements
  sub_requirements,  \* transform_sub_requirements' output rows for that raw row
  pair,              \* (course codeset, criteria) handed to the eligibility decision
  accepted,          \* the decision
  frame,             \* the DataFrame object handed to transform_sub_requirements (one row)
  rerun,             \* the rows a second call on that same object returns
  task_pc,           \* per mapped transform_to_final_result task: where it stands
  db_conn,           \* per task: its sqlite3 connection
  files,             \* the local database files that exist
  touched            \* per task: the files it connected to, wrote or deleted

vars == <<pc, value, normalized, renormalized, combos, ps_req_des, ps_cw,
          raw, sub_requirements, pair, accepted, frame, rerun,
          task_pc, db_conn, files, touched>>

normalizerVars == <<value, normalized, renormalized>>
splitterVars   == <<combos>>
crosswalkVars  == <<ps_req_des, ps_cw>>
subReqVars     == <<raw, sub_requirements>>
evaluatorVars  == <<pair, accepted>>
rerunVars      == <<frame, rerun>>
dbVars         == <<task_pc, db_conn, files, touched>>

-----------------------------------------------------------------------------
(* Strings *)

\* the regex class [a-zA-Z]
Letters ==
  {"A","B","C","D","E","F","G","H","I","J","K","L","M",
   "N","O","P","Q","R","S","T","U","V","W","X","Y","Z",
   "a","b","c","d","e","f","g","h","i","j","k","l","m",
   "n","o","p","q","r","s","t","u","v","w","x","y","z"}

CharAt(s, i) == SubSeq(s, i, i)

startswith(s, prefix) ==
  /\ Len(prefix) <= Len(s)
  /\ SubSeq(s, 1, Len(prefix)) = prefix

RECURSIVE str_replace_from(_, _, _, _)
\* str.replace(old, new): every non-overlapping occurrence, left to right
str_replace_from(s, old, new, i) ==
  IF i > Len(s) THEN ""
  ELSE IF i + Len(old) - 1 <= Len(s) /\ SubSeq(s, i, i + Len(old) - 1) = old
       THEN new \o str_replace_from(s, old, new, i + Len(old))
       ELSE CharAt(s, i) \o str_replace_from(s, old, new, i + 1)

str_replace(s, old, new) == str_replace_from(s, old, new, 1)

-----------------------------------------------------------------------------
(* The code tables, in dict order *)

MAROON_PS_CONDITION_CODES_TO_DARS_CODES ==
  << <<"C", "c">>, <<"CS", "Q">>, <<"G", "g">>, <<"H", "h">>, <<"HU", "H">>,
     <<"L", "t">>, <<"MA", "v">>, <<"SB", "S">>, <<"SG", "z">>, <<"SQ", "y">> >>

\* The nine gold symbols are outside ASCII, and the model checker keeps
\* strings as bytes: each is written here as an ASCII mark that is no letter and
\* that no table, flag or input uses otherwise:
\*   HUAD \u00BF "?"   SOBE \u00D1 "~"   SCIT \u00DF "$"
\*   QTRS \u00A3 "#"   MATH \u00C6 "@"   AMIT \u00FF "!"
\*   CIVI \u00AB "<"   GCSI \u00F1 "^"   SUST \u00F9 "%"
GOLD_PS_CONDITION_CODES_TO_DARS_CODES ==
  << <<"HUAD", "?">>, <<"SOBE", "~">>, <<"SCIT", "$">>, <<"QTRS", "#">>,
     <<"MATH", "@">>, <<"AMIT", "!">>, <<"CIVI", "<">>, <<"GCSI", "^">>,
     <<"SUST", "%">> >>

\* {**MAROON..., **GOLD...}
ps_condition_codes ==
  MAROON_PS_CONDITION_CODES_TO_DARS_CODES \o GOLD_PS_CONDITION_CODES_TO_DARS_CODES

\* GOLD_PS_CONDITION_CODES_TO_DARS_CODES.values(), in order
gold_dars_codes ==
  [k \in 1..Len(GOLD_PS_CONDITION_CODES_TO_DARS_CODES) |->
     GOLD_PS_CONDITION_CODES_TO_DARS_CODES[k][2]]

\* the tuple of transform_sub_requirements
maroon_condition_codes ==
  <<"G","H","Q","S","c","g","h","t","v","w","x","y","z">>

Range(seq) == {seq[k] : k \in 1..Len(seq)}

LegacyCodes == {ps_condition_codes[k][1] : k \in 1..Len(ps_condition_codes)}

\* ps_condition_codes[ps_code]
DarsOf(ps_code) ==
  LET k == CHOOSE j \in 1..Len(ps_condition_codes) :
             ps_condition_codes[j][1] = ps_code
  IN  ps_condition_codes[k][2]

ConditionCodes == Range(maroon_condition_codes) \cup Range(gold_dars_codes)

-----------------------------------------------------------------------------
(* replace_ps_code_with_dars_code *)

\* a plain substring match, without the two negative lookarounds
MatchAtNoLookaround(ps_code, s, i) ==
  /\ i + Len(ps_code) - 1 <= Len(s)
  /\ SubSeq(s, i, i + Len(ps_code) - 1) = ps_code

\* (?<![a-zA-Z])ps_code(?![a-zA-Z]) matches at position i of s
MatchAt(ps_code, s, i) ==
  /\ i + Len(ps_code) - 1 <= Len(s)
  /\ SubSeq(s, i, i + Len(ps_code) - 1) = ps_code
  /\ (i = 1 \/ CharAt(s, i - 1) \notin Letters)
  /\ (i + Len(ps_code) > Len(s) \/ CharAt(s, i + Len(ps_code)) \notin Letters)

RECURSIVE re_sub_from(_, _, _, _)
\* re.sub(pattern, dars_code, s): matches are found on s itself, left to right
re_sub_from(ps_code, dars_code, s, i) ==
  IF i > Len(s) THEN ""
  ELSE IF MatchAt(ps_code, s, i)
       THEN dars_code \o re_sub_from(ps_code, dars_code, s, i + Len(ps_code))
       ELSE CharAt(s, i) \o re_sub_from(ps_code, dars_code, s, i + 1)

re_sub(ps_code, dars_code, s) == re_sub_from(ps_code, dars_code, s, 1)

RECURSIVE replace_loop(_, _)
\* the for loop over ps_condition_codes.items(), from entry k on
replace_loop(s, k) ==
  IF k > Len(ps_condition_codes) THEN s
  ELSE replace_loop(re_sub(ps_condition_codes[k][1], ps_condition_codes[k][2], s),
                    k + 1)

replace_ps_code_with_dars_code(s) == replace_loop(s, 1)

-----------------------------------------------------------------------------
(* split_gold_and_maroon_combos *)

RECURSIVE split_loop(_, _)
\* the for loop over GOLD_PS_CONDITION_CODES_TO_DARS_CODES.values(), from entry k on
split_loop(s, k) ==
  IF k > Len(gold_dars_codes) THEN <<s>>
  ELSE IF startswith(s, gold_dars_codes[k] \o " or ")
       THEN <<gold_dars_codes[k], str_replace(s, gold_dars_codes[k] \o " or ", "")>>
       ELSE split_loop(s, k + 1)

\* the value is returned whole, whatever it starts with
split_never(s) == <<str_replace(s, " OR ", " or ")>>

split_gold_and_maroon_combos(s) == split_loop(str_replace(s, " OR ", " or "), 1)

-----------------------------------------------------------------------------
(* import_course_crosswalk *)

RECURSIVE str_split_from(_, _, _, _)
\* str.split(sep): the parts of s between the occurrences of sep; `start` is
\* where the current part begins
str_split_from(s, sep, i, start) ==
  IF i > Len(s) THEN <<SubSeq(s, start, Len(s))>>
  ELSE IF i + Len(sep) - 1 <= Len(s) /\ SubSeq(s, i, i + Len(sep) - 1) = sep
       THEN <<SubSeq(s, start, i - 1)>>
              \o str_split_from(s, sep, i + Len(sep), i + Len(sep))
       ELSE str_split_from(s, sep, i + 1, start)

str_split(s, sep) == str_split_from(s, sep, 1, 1)

RECURSIVE clean_up(_)
\* .replace(regex=r'[() ]', value='')
clean_up(s) ==
  IF s = "" THEN ""
  ELSE (IF Head(s) \in {"(", ")", " "} THEN "" ELSE Head(s)) \o clean_up(Tail(s))

RECURSIVE Flatten(_)
\* DataFrame.explode: the lists of a column laid out one element per row
Flatten(lists) ==
  IF lists = <<>> THEN <<>> ELSE Head(lists) \o Flatten(Tail(lists))

\* lines 179-183: normalize, split off a leading gold code, one row per combo
exploded_combos(table) ==
  Flatten([k \in 1..Len(table) |->
    LET split == split_gold_and_maroon_combos(
                   replace_ps_code_with_dars_code(table[k].expression))
    IN  [j \in 1..Len(split) |->
           [designation |-> table[k].designation, combo |-> split[j]]]])

\* line 186: the number of columns str.split(pat='&', expand=True) returns
split_width(rows) ==
  LET widths == {Len(str_split(rows[k].combo, "&")) : k \in 1..Len(rows)}
  IN  CHOOSE w \in widths : \A v \in widths : v <= w

\* a column of the expanded split: None (here '', as after line 197) where the
\* row has fewer groups
slot(groups, j) == IF j <= Len(groups) THEN clean_up(groups[j]) ELSE ""

\* lines 186-201 for one row: ac1 split at 'or' and exploded, the four columns
\* cleaned and concatenated
expand_row(row) ==
  LET groups == str_split(row.combo, "&")
      alternatives == str_split(groups[1], "or")
  IN  [a \in 1..Len(alternatives) |->
        [designation |-> row.designation,
         ac_cw |-> clean_up(alternatives[a]) \o slot(groups, 2)
                     \o slot(groups, 3) \o slot(groups, 4)]]

\* the rows import_course_crosswalk returns, the '-' row last
import_course_crosswalk(table) ==
  LET rows == exploded_combos(table)
  IN  Flatten([k \in 1..Len(rows) |-> expand_row(rows[k])])
        \o <<[designation |-> "-", ac_cw |-> ""]>>

\* assigning the expanded split to ['ac1', 'ac2', 'ac3', 'ac4'] raises
\* ValueError unless it has that many columns
columns_fit(table) == split_width(exploded_combos(table)) = Len(<<"ac1", "ac2", "ac3", "ac4">>)

-----------------------------------------------------------------------------
(* Bounds and input sets of the two string functions *)

MaxTokens == 2
MaxSplitTokens == 4

RECURSIVE TokenStrings(_, _)
\* the strings made of at most n tokens
TokenStrings(tokens, n) ==
  IF n = 0 THEN {""}
  ELSE LET shorter == TokenStrings(tokens, n - 1)
       IN  shorter \cup {s \o t : s \in shorter, t \in tokens}

NormalizerTokens ==
  LegacyCodes \cup ConditionCodes \cup {" ", "&", "or", "OR", "(", ")"}

\* one ASCII letter before or after a legacy code
BoundaryInputs ==
  {X \o L : X \in Letters, L \in LegacyCodes}
    \cup {L \o X : L \in LegacyCodes, X \in Letters}

NormalizerInputs == TokenStrings(NormalizerTokens, MaxTokens) \cup BoundaryInputs

SplitterTokens == {"?", "~", "%", " or ", " OR ", "H", "c", " & "}

SplitterInputs == TokenStrings(SplitterTokens, MaxSplitTokens)

-----------------------------------------------------------------------------
(* The normalizer applied to an input, and to its own result *)

InitNormalizer ==
  /\ pc = "input"
  /\ value \in NormalizerInputs
  /\ normalized = ""
  /\ renormalized = ""
  /\ combos = <<>>
  /\ ps_req_des = <<>>
  /\ ps_cw = <<>>
  /\ raw = <<>>
  /\ sub_requirements = <<>>
  /\ pair = <<>>
  /\ accepted = FALSE
  /\ frame = <<>>
  /\ rerun = <<>>
  /\ task_pc = <<>>
  /\ db_conn = <<>>
  /\ files = {}
  /\ touched = <<>>

Normalize ==
  /\ pc = "input"
  /\ normalized' = replace_ps_code_with_dars_code(value)
  /\ pc' = "normalized"
  /\ UNCHANGED <<value, renormalized, splitterVars, crosswalkVars, subReqVars,
                 evaluatorVars,
                 rerunVars, dbVars>>

Renormalize ==
  /\ pc = "normalized"
  /\ renormalized' = replace_ps_code_with_dars_code(normalized)
  /\ pc' = "renormalized"
  /\ UNCHANGED <<value, normalized, splitterVars, crosswalkVars, subReqVars,
                 evaluatorVars,
                 rerunVars, dbVars>>

NextNormalizer == Normalize \/ Renormalize

SpecNormalizer == InitNormalizer /\ [][NextNormalizer]_vars

\* C1: normalizing a second time changes nothing:
\* normalize(normalize(x)) = normalize(x) for every input x.
C1_Idempotent == pc = "renormalized" => renormalized = normalized

\* C2: a legacy code alone becomes exactly its ConditionCode, and with one ASCII
\* letter before or after it the text is left as it is, unless the whole letter
\* run is itself a legacy code, which then becomes that code's ConditionCode.
C2_WholeToken ==
  pc = "normalized" =>
    /\ value \in LegacyCodes => normalized = DarsOf(value)
    /\ value \in BoundaryInputs =>
         normalized = IF value \in LegacyCodes THEN DarsOf(value) ELSE value

C2_Witness ==
  /\ pc = "normalized"
  /\ value = "MATHS"
  /\ normalized = "MATHS"

-----------------------------------------------------------------------------
(* The splitter applied to an input *)

InitSplitter ==
  /\ pc = "input"
  /\ value \in SplitterInputs
  /\ normalized = ""
  /\ renormalized = ""
  /\ combos = <<>>
  /\ ps_req_des = <<>>
  /\ ps_cw = <<>>
  /\ raw = <<>>
  /\ sub_requirements = <<>>
  /\ pair = <<>>
  /\ accepted = FALSE
  /\ frame = <<>>
  /\ rerun = <<>>
  /\ task_pc = <<>>
  /\ db_conn = <<>>
  /\ files = {}
  /\ touched = <<>>

Split ==
  /\ pc = "input"
  /\ combos' = split_gold_and_maroon_combos(value)
  /\ pc' = "split"
  /\ UNCHANGED <<normalizerVars, crosswalkVars, subReqVars, evaluatorVars,
                 rerunVars, dbVars>>

NextSplitter == Split

SpecSplitter == InitSplitter /\ [][NextSplitter]_vars

\* C3: with ' OR ' rewritten to ' or ', an input that begins with
\* '<gold code> or ' gives the gold code and the input without that leading
\* prefix only (later occurrences kept); any other input gives itself alone.
C3_LeadingPrefixOnly ==
  pc = "split" =>
    LET s == str_replace(value, " OR ", " or ")
        leading == {g \in Range(gold_dars_codes) : startswith(s, g \o " or ")}
    IN  IF leading = {}
        THEN combos = <<s>>
        ELSE \E g \in leading :
               combos = <<g, SubSeq(s, Len(g \o " or ") + 1, Len(s))>>

-----------------------------------------------------------------------------
(* The crosswalk task on a crosswalk file *)

MaxRows == 2

Designations == {"GE11", "GE12"}

GE11Expression == "HUAD OR (HU or SB) & C & H"
OrOfAndsExpression == "HU&C or SB&H"

CrosswalkExpressions ==
  {GE11Expression, OrOfAndsExpression, "HU & C & H & G", "HU", "(L or MA) & G",
   "SOBE or SB & SG", "MATH", "CS & SQ & SG & MA & L"}

CrosswalkFiles ==
  UNION {[1..n -> [designation : Designations, expression : CrosswalkExpressions]] :
           n \in 1..MaxRows}

InitCrosswalk ==
  /\ pc = "csv_read"
  /\ ps_req_des \in CrosswalkFiles
  /\ ps_cw = <<>>
  /\ value = ""
  /\ normalized = ""
  /\ renormalized = ""
  /\ combos = <<>>
  /\ raw = <<>>
  /\ sub_requirements = <<>>
  /\ pair = <<>>
  /\ accepted = FALSE
  /\ frame = <<>>
  /\ rerun = <<>>
  /\ task_pc = <<>>
  /\ db_conn = <<>>
  /\ files = {}
  /\ touched = <<>>

ImportCourseCrosswalk ==
  /\ pc = "csv_read"
  /\ IF columns_fit(ps_req_des)
     THEN /\ ps_cw' = import_course_crosswalk(ps_req_des)
          /\ pc' = "crosswalk_done"
     ELSE /\ ps_cw' = <<>>
          /\ pc' = "crosswalk_failed"
  /\ UNCHANGED <<ps_req_des, normalizerVars, splitterVars, subReqVars,
                 evaluatorVars,
                 rerunVars, dbVars>>

NextCrosswalk == ImportCourseCrosswalk

SpecCrosswalk == InitCrosswalk /\ [][NextCrosswalk]_vars

\* the expressions the file gives designation d, in file order
ExpressionsOf(d) ==
  LET Mine(r) == r.designation = d
      rows == SelectSeq(ps_req_des, Mine)
  IN  [k \in 1..Len(rows) |-> rows[k].expression]

\* the codesets the result gives designation d, in row order
CodesetsOf(d) ==
  LET Mine(r) == r.designation = d
      rows == SelectSeq(ps_cw, Mine)
  IN  [k \in 1..Len(rows) |-> rows[k].ac_cw]

\* C4: a designation whose expression is 'A&B or C&D' (here A, B, C, D are the
\* legacy codes HU, C, SB, H) gets exactly two rows, {A,B} and {C,D}, and every
\* codeset of the result is made of ConditionCode characters only.
C4_OrOfAnds ==
  pc = "crosswalk_done" =>
    /\ \A d \in Designations :
         ExpressionsOf(d) = <<OrOfAndsExpression>> =>
           CodesetsOf(d) = <<DarsOf("HU") \o DarsOf("C"), DarsOf("SB") \o DarsOf("H")>>
    /\ \A k \in 1..Len(ps_cw) : \A i \in 1..Len(ps_cw[k].ac_cw) :
         CharAt(ps_cw[k].ac_cw, i) \in ConditionCodes

\* C5: a designation whose expression is 'HUAD OR (HU or SB) & C & H' gets
\* exactly three rows: the gold code alone, and the two maroon combinations
\* HU & C & H and SB & C & H, each in normalized form.
C5_LeadingGold ==
  pc = "crosswalk_done" =>
    \A d \in Designations :
      ExpressionsOf(d) = <<GE11Expression>> =>
        CodesetsOf(d) = <<DarsOf("HUAD"),
                          DarsOf("HU") \o DarsOf("C") \o DarsOf("H"),
                          DarsOf("SB") \o DarsOf("C") \o DarsOf("H")>>

C5_Witness ==
  /\ pc = "crosswalk_done"
  /\ ExpressionsOf("GE11") = <<GE11Expression>>
  /\ CodesetsOf("GE11") = <<"?", "Hch", "Sch">>

-----------------------------------------------------------------------------
(* transform_sub_requirements, on one raw row *)

\* a cell of the query result: SQL NULL, or a string
None == [null |-> TRUE, str |-> ""]
Str(s) == [null |-> FALSE, str |-> s]

\* the list the for loop of line 319 goes through
code_fields ==
  <<"r_ac1", "r_ac2", "r_rc1", "r_rc2", "ac", "rc", "ac1", "ac2", "ac3", "ac4",
    "ac5", "rc1", "rc2", "rc3", "rc4", "rc5">>

\* the list of line 326
accept_group == {"r_ac1", "r_ac2", "ac", "ac1", "ac2", "ac3", "ac4", "ac5"}

\* .str.replace(' ', '', regex=False): a null cell stays null (NaN)
strip_spaces(x) == IF x.null THEN x ELSE Str(str_replace(x.str, " ", ""))

\* lambda x: x or '' : '' for an empty string; NaN is truthy and stays
or_empty(x) == x

\* what lines 321-323 leave in the cell
cleaned(x) == or_empty(strip_spaces(x))

\* lambda x: x if x in ('U', 'L') else ''
marker(x) == IF ~x.null /\ x.str \in {"U", "L"} THEN x.str ELSE ""

\* every non-null cell is kept as it is
filter_nothing(x) == IF x.null THEN "" ELSE x.str

\* lambda x: x if x in maroon_condition_codes or x in GOLD_....values() else ''
filter_codes(x) ==
  IF ~x.null /\ (x.str \in Range(maroon_condition_codes)
                   \/ x.str \in Range(gold_dars_codes))
  THEN x.str ELSE ""

\* the column of field f after the loop body of lines 321-334
column(row, f) == filter_codes(cleaned(row[f]))

RECURSIVE markers_from(_, _, _)
\* the markers of the fields of `group`, concatenated in loop order from
\* field k on
markers_from(row, group, k) ==
  IF k > Len(code_fields) THEN ""
  ELSE (IF code_fields[k] \in group THEN marker(cleaned(row[code_fields[k]])) ELSE "")
         \o markers_from(row, group, k + 1)

\* lines 312, 328
upper_lower_acc(row) == markers_from(row, accept_group, 1)

\* lines 313, 331: the else branch takes every other field of the loop
upper_lower_rej(row) == markers_from(row, Range(code_fields) \ accept_group, 1)

\* .replace(np.nan, '') on acor and rcand
nan_to_empty(x) == IF x.null THEN "" ELSE x.str

\* Series.str.contains('-')
str_contains(s, c) == \E i \in 1..Len(s) : CharAt(s, i) = c

\* line 337
ac_5(row) ==
  column(row, "ac1") \o column(row, "ac2") \o column(row, "ac3")
    \o column(row, "ac4") \o column(row, "ac5")

\* ac_5 is kept whole whatever acor holds
explode_never(acor, s) == <<s>>

\* lines 341-342: list(x) or '' where acor contains '-', then explode
explode_ac_5(acor, s) ==
  IF str_contains(acor, "-") /\ s # ""
  THEN [i \in 1..Len(s) |-> CharAt(s, i)]
  ELSE <<s>>

rc_1_to_5(row) ==
  column(row, "rc1") \o column(row, "rc2") \o column(row, "rc3")
    \o column(row, "rc4") \o column(row, "rc5")

\* line 352
rc_and(row) == IF nan_to_empty(row["rcand"]) = "-" THEN rc_1_to_5(row) ELSE ""

\* rc1..rc5 are added whether rcand is checked or not
rc_ord_always(row) ==
  column(row, "r_rc1") \o column(row, "r_rc2") \o column(row, "rc") \o rc_1_to_5(row)

\* line 355
rc_ord(row) ==
  column(row, "r_rc1") \o column(row, "r_rc2") \o column(row, "rc")
    \o (IF nan_to_empty(row["rcand"]) = "-" THEN "" ELSE rc_1_to_5(row))

\* the rows transform_sub_requirements returns for one raw row
transform_sub_requirements(row) ==
  LET pieces == explode_ac_5(nan_to_empty(row["acor"]), ac_5(row))
  IN  [i \in 1..Len(pieces) |->
        [ac_all |-> column(row, "r_ac1") \o column(row, "r_ac2")
                      \o column(row, "ac") \o pieces[i],
         rc_and |-> rc_and(row),
         rc_ord |-> rc_ord(row),
         upper_lower_acc |-> upper_lower_acc(row),
         upper_lower_rej |-> upper_lower_rej(row)]]

-----------------------------------------------------------------------------
(* transform_sub_requirements, on the DataFrame object it is handed: a frame  *)
(* is [cells, years, added], the code-bearing and flag cells of its row, the  *)
(* four requirement-year cells, and the columns the task has added to it.     *)

\* lambda req_year: req_year.replace(' ', '')[0:1] + req_year.replace(' ', '')[2:]
convert_requirement_year(req_year) ==
  LET s == str_replace(req_year, " ", "")
  IN  SubSeq(s, 1, 1) \o SubSeq(s, 3, Len(s))

\* lines 306-309: rqfyt and lyt always, rqfyt2 and lyt2 `if year else year`
convert_years(years) ==
  [y \in DOMAIN years |->
     IF y \in {"rqfyt", "lyt"}
     THEN Str(convert_requirement_year(years[y].str))
     ELSE IF years[y].null \/ years[y].str = ""
          THEN years[y]
          ELSE Str(convert_requirement_year(years[y].str))]

\* the rows the task returns: the criteria columns and the year columns
task_result(fr) ==
  LET rows == transform_sub_requirements(fr.cells)
      y == convert_years(fr.years)
  IN  [i \in 1..Len(rows) |->
        [ac_all |-> rows[i].ac_all,
         rc_and |-> rows[i].rc_and,
         rc_ord |-> rows[i].rc_ord,
         upper_lower_acc |-> rows[i].upper_lower_acc,
         upper_lower_rej |-> rows[i].upper_lower_rej,
         rqfyt |-> y["rqfyt"], lyt |-> y["lyt"],
         rqfyt2 |-> y["rqfyt2"], lyt2 |-> y["lyt2"]]]

\* what the call leaves in the caller's object: every assignment before line
\* 342 writes to it (years, the two marker columns, the 16 filtered fields,
\* ac_5, acor); from explode on the task works on a new frame, so rcand is not
\* rewritten and no column is dropped
frame_after_call(fr) ==
  [cells |-> [f \in DOMAIN fr.cells |->
                IF f \in Range(code_fields) THEN Str(column(fr.cells, f))
                ELSE IF f = "acor" THEN Str(nan_to_empty(fr.cells[f]))
                ELSE fr.cells[f]],
   years |-> convert_years(fr.years),
   added |-> fr.added \cup {"upper_lower_acc", "upper_lower_rej", "ac_5"}]

\* the frame read_sql returns for a row
query_result(cells, years) == [cells |-> cells, years |-> years, added |-> {}]

-----------------------------------------------------------------------------
(* The criteria builder on a raw row *)

MaxFilled == 2

\* what a code-bearing cell may hold besides NULL: a maroon code, a gold code
\* with a stray space, a division marker, a GPA number
FieldValues == {"G", "? ", "U", "2.00"}

\* acor and rcand: NULL or the marker; in FullRows also the marker with a space
SparseFlagValues == {None, Str("-")}
FlagValues == SparseFlagValues \cup {Str("- ")}

all_fields == Range(code_fields) \cup {"acor", "rcand"}

\* the raw row with cells `filled` and the two flags, NULL elsewhere
RawRow(filled, acor, rcand) ==
  [f \in all_fields |->
     IF f = "acor" THEN acor
     ELSE IF f = "rcand" THEN rcand
     ELSE IF f \in DOMAIN filled THEN Str(filled[f]) ELSE None]

\* rows with at most MaxFilled non-null code-bearing cells
SparseRows ==
  {RawRow(filled, acor, rcand) :
     filled \in UNION {[F -> FieldValues] :
                         F \in {G \in SUBSET Range(code_fields) : Cardinality(G) <= MaxFilled}},
     acor \in SparseFlagValues, rcand \in SparseFlagValues}

\* rows with every group of cells in use, some holding a grade letter, a
\* multi-character string, spaces only or an unknown token
FullRows ==
  {RawRow([r_ac1 |-> "c", ac |-> a, ac1 |-> "G", ac2 |-> b, ac5 |-> "H",
           r_rc1 |-> "S", rc |-> c, rc1 |-> "Q", rc3 |-> d, rc4 |-> "v"],
          acor, rcand) :
     a \in {"U", "y"}, b \in {"L", "GH", "B"}, c \in {"U", "z"}, d \in {"L", " ", "X9"},
     acor \in FlagValues, rcand \in FlagValues}

\* requirement years as the query returns them: year and term digit
DefaultYears ==
  [rqfyt |-> Str("20217"), lyt |-> Str("99999"), rqfyt2 |-> None, lyt2 |-> None]

InitSubRequirements ==
  /\ pc = "queried"
  /\ raw \in SparseRows \cup FullRows
  /\ frame = query_result(raw, DefaultYears)
  /\ rerun = <<>>
  /\ sub_requirements = <<>>
  /\ value = ""
  /\ normalized = ""
  /\ renormalized = ""
  /\ combos = <<>>
  /\ ps_req_des = <<>>
  /\ ps_cw = <<>>
  /\ pair = <<>>
  /\ accepted = FALSE
  /\ task_pc = <<>>
  /\ db_conn = <<>>
  /\ files = {}
  /\ touched = <<>>

TransformSubRequirements ==
  /\ pc = "queried"
  /\ sub_requirements' = task_result(frame)
  /\ frame' = frame_after_call(frame)
  /\ pc' = "transformed"
  /\ UNCHANGED <<raw, rerun, normalizerVars, splitterVars, crosswalkVars,
                 evaluatorVars, dbVars>>

NextSubRequirements == TransformSubRequirements

SpecSubRequirements == InitSubRequirements /\ [][NextSubRequirements]_vars

\* the filtered value of raw's field f: the cell without its spaces if that is
\* one ConditionCode, else nothing
Filtered(f) ==
  IF raw[f].null THEN ""
  ELSE LET s == str_replace(raw[f].str, " ", "")
       IN  IF s \in ConditionCodes THEN s ELSE ""

FilteredAc5 ==
  Filtered("ac1") \o Filtered("ac2") \o Filtered("ac3") \o Filtered("ac4")
    \o Filtered("ac5")

FilteredRc1To5 ==
  Filtered("rc1") \o Filtered("rc2") \o Filtered("rc3") \o Filtered("rc4")
    \o Filtered("rc5")

AcorHasDash == ~raw["acor"].null /\ str_contains(raw["acor"].str, "-")

\* C6: a raw row whose acor contains '-' and whose ac_5 has n >= 1 characters
\* gives n rows, the i-th with ac_all = r_ac1 + r_ac2 + ac + ac_5[i]; a row whose
\* acor has no '-' gives one row with ac_all = r_ac1 + r_ac2 + ac + ac_5; every
\* raw row gives at least one row.
C6_Explosion ==
  pc = "transformed" =>
    LET base == Filtered("r_ac1") \o Filtered("r_ac2") \o Filtered("ac")
        n == Len(FilteredAc5)
    IN  /\ Len(sub_requirements) >= 1
        /\ AcorHasDash /\ n >= 1 =>
             /\ Len(sub_requirements) = n
             /\ \A i \in 1..n :
                  sub_requirements[i].ac_all = base \o CharAt(FilteredAc5, i)
        /\ ~AcorHasDash =>
             /\ Len(sub_requirements) = 1
             /\ sub_requirements[1].ac_all = base \o FilteredAc5

C6_Witness ==
  /\ pc = "transformed"
  /\ raw["acor"] = Str("-")
  /\ raw["ac1"] = Str("G")
  /\ raw["ac2"] = Str("? ")
  /\ Len(sub_requirements) = 2
  /\ sub_requirements[1].ac_all = "G"
  /\ sub_requirements[2].ac_all = "?"

\* C8: in every output row rc1..rc5 go to exactly one of the two reject sets:
\* with rcand = '-', rc_and = rc1+..+rc5 and rc_ord = r_rc1+r_rc2+rc; otherwise
\* rc_and is empty and rc_ord = r_rc1+r_rc2+rc+rc1+..+rc5.
C8_RejectPartition ==
  pc = "transformed" =>
    LET upper == Filtered("r_rc1") \o Filtered("r_rc2") \o Filtered("rc")
    IN  \A i \in 1..Len(sub_requirements) :
          IF raw["rcand"] = Str("-")
          THEN /\ sub_requirements[i].rc_and = FilteredRc1To5
               /\ sub_requirements[i].rc_ord = upper
          ELSE /\ sub_requirements[i].rc_and = ""
               /\ sub_requirements[i].rc_ord = upper \o FilteredRc1To5

C8_Witness ==
  /\ pc = "transformed"
  /\ raw["rcand"] = Str("-")
  /\ raw["r_rc1"] = Str("G")
  /\ raw["rc2"] = Str("? ")
  /\ sub_requirements[1].rc_and = "?"
  /\ sub_requirements[1].rc_ord = "G"

\* C9: every character of every output row's ac_all, rc_and and rc_ord is one
\* of the 22 ConditionCodes, whatever the raw cells hold.
C9_Alphabet ==
  pc = "transformed" =>
    /\ Cardinality(ConditionCodes) = 22
    /\ \A i \in 1..Len(sub_requirements) :
         \A s \in {sub_requirements[i].ac_all, sub_requirements[i].rc_and,
                   sub_requirements[i].rc_ord} :
           \A j \in 1..Len(s) : CharAt(s, j) \in ConditionCodes

C9_Witness ==
  /\ pc = "transformed"
  /\ raw["ac2"] = Str("GH")
  /\ raw["rc3"] = Str("X9")
  /\ raw["rcand"] = None
  /\ sub_requirements[1].ac_all = "cyGH"
  /\ sub_requirements[1].rc_ord = "SzQv"

\* C10: in every output row upper_lower_acc and upper_lower_rej are each 'U',
\* 'L' or empty.
C10_DivisionMarker ==
  pc = "transformed" =>
    \A i \in 1..Len(sub_requirements) :
      /\ sub_requirements[i].upper_lower_acc \in {"U", "L", ""}
      /\ sub_requirements[i].upper_lower_rej \in {"U", "L", ""}

-----------------------------------------------------------------------------
(* The criteria builder called a second time on the same object *)

YearRows ==
  [rqfyt : {Str("20217"), Str("2021 7")}, lyt : {Str("99999")},
   rqfyt2 : {None, Str(""), Str("20224")}, lyt2 : {None, Str("20231")}]

InitRerun ==
  /\ pc = "queried"
  /\ raw \in FullRows
  /\ \E years \in YearRows : frame = query_result(raw, years)
  /\ rerun = <<>>
  /\ sub_requirements = <<>>
  /\ value = ""
  /\ normalized = ""
  /\ renormalized = ""
  /\ combos = <<>>
  /\ ps_req_des = <<>>
  /\ ps_cw = <<>>
  /\ pair = <<>>
  /\ accepted = FALSE
  /\ task_pc = <<>>
  /\ db_conn = <<>>
  /\ files = {}
  /\ touched = <<>>

TransformAgain ==
  /\ pc = "transformed"
  /\ rerun' = task_result(frame)
  /\ frame' = frame_after_call(frame)
  /\ pc' = "transformed_again"
  /\ UNCHANGED <<raw, sub_requirements, normalizerVars, splitterVars,
                 crosswalkVars, evaluatorVars, dbVars>>

NextRerun == TransformSubRequirements \/ TransformAgain

SpecRerun == InitRerun /\ [][NextRerun]_vars

\* C11: transform_sub_requirements leaves the table it is handed as it was (no
\* column rewritten, added or dropped), and a second call on the same object
\* returns the rows of the first, year columns included.
C11_PureAndRerunnable ==
  [][/\ frame' = frame
     /\ pc' = "transformed_again" => rerun' = sub_requirements']_vars

-----------------------------------------------------------------------------
(* The eligibility decision.  transform_to_final_result hands the criteria   *)
(* and the crosswalk to the queries of the sql directory, which decide; the  *)
(* decision is taken here as section 4.5 of the specification states it, on  *)
(* the concatenated strings the two transformations produce.                 *)

RECURSIVE every_character_present(_, _)
\* every character of s occurs in codeset
every_character_present(s, codeset) ==
  IF s = "" THEN TRUE
  ELSE str_contains(codeset, Head(s)) /\ every_character_present(Tail(s), codeset)

RECURSIVE any_character_present(_, _)
\* some character of s occurs in codeset
any_character_present(s, codeset) ==
  IF s = "" THEN FALSE
  ELSE str_contains(codeset, Head(s)) \/ any_character_present(Tail(s), codeset)

\* the AND-reject set fires as soon as one of its characters is present
criteria_met_and_as_or(codeset, ac_all, rcand, rcord) ==
  /\ every_character_present(ac_all, codeset)
  /\ ~any_character_present(rcand, codeset)
  /\ ~any_character_present(rcord, codeset)

criteria_met(codeset, ac_all, rcand, rcord) ==
  /\ every_character_present(ac_all, codeset)
  /\ ~(rcand # "" /\ every_character_present(rcand, codeset))
  /\ ~any_character_present(rcord, codeset)

MaxCriteria == 2

\* codesets as import_course_crosswalk produces them
Codesets == {"", "H", "Q", "HQ", "?", "Hch"}

\* criteria over the two codes of the examples
CriteriaStrings == TokenStrings({"H", "Q"}, MaxCriteria)

InitEvaluator ==
  /\ pc = "joined"
  /\ pair \in [codeset : Codesets, ac_all : CriteriaStrings,
               rc_and : CriteriaStrings, rc_ord : CriteriaStrings]
  /\ accepted = FALSE
  /\ value = ""
  /\ normalized = ""
  /\ renormalized = ""
  /\ combos = <<>>
  /\ ps_req_des = <<>>
  /\ ps_cw = <<>>
  /\ raw = <<>>
  /\ sub_requirements = <<>>
  /\ frame = <<>>
  /\ rerun = <<>>
  /\ task_pc = <<>>
  /\ db_conn = <<>>
  /\ files = {}
  /\ touched = <<>>

Evaluate ==
  /\ pc = "joined"
  /\ accepted' = criteria_met(pair.codeset, pair.ac_all, pair.rc_and, pair.rc_ord)
  /\ pc' = "evaluated"
  /\ UNCHANGED <<pair, normalizerVars, splitterVars, crosswalkVars, subReqVars,
                 rerunVars, dbVars>>

NextEvaluator == Evaluate

SpecEvaluator == InitEvaluator /\ [][NextEvaluator]_vars

\* the set of characters of s
Chars(s) == {CharAt(s, i) : i \in 1..Len(s)}

\* C7: a pair is accepted iff every character of ac_all is in the codeset, and
\* rc_and is empty or not wholly in the codeset, and no character of rc_ord is
\* in the codeset.  So accept {H} with codeset {H,Q} accepts; rc_ord {H} with
\* that codeset rejects; rc_and {H,Q} with codeset {H} does not reject.
C7_Decision ==
  pc = "evaluated" =>
    /\ accepted <=>
         /\ Chars(pair.ac_all) \subseteq Chars(pair.codeset)
         /\ (pair.rc_and = "" \/ ~(Chars(pair.rc_and) \subseteq Chars(pair.codeset)))
         /\ Chars(pair.rc_ord) \cap Chars(pair.codeset) = {}
    /\ pair = [codeset |-> "HQ", ac_all |-> "H", rc_and |-> "", rc_ord |-> ""]
         => accepted
    /\ pair.codeset = "HQ" /\ pair.rc_ord = "H" => ~accepted
    /\ pair = [codeset |-> "H", ac_all |-> "H", rc_and |-> "HQ", rc_ord |-> ""]
         => accepted

C7_Witness ==
  /\ pc = "evaluated"
  /\ pair = [codeset |-> "H", ac_all |-> "H", rc_and |-> "HQ", rc_ord |-> ""]
  /\ accepted

-----------------------------------------------------------------------------
(* transform_to_final_result, mapped over the requirement years and run by    *)
(* the threads of the LocalDaskExecutor.  Each task is followed through its   *)
(* local database: connect, PRAGMA, the loads and queries of the try block,   *)
(* and the finally block.                                                     *)

MaxTasks == 2

\* LocalDaskExecutor(scheduler='threads', num_workers=8)
num_workers == 8

\* the map_index values of the mapped tasks
Tasks == 0..(MaxTasks - 1)

\* every task gets the same name, whatever its map_index
db_file_name_shared(map_index) == <<"/opt/prefect/cremo-idp-sub-req-$", 0, ".db">>

\* f"/opt/prefect/cremo-idp-sub-req-${prefect.context.get('map_index')}.db"
db_file_name(map_index) == <<"/opt/prefect/cremo-idp-sub-req-$", map_index, ".db">>

\* the statements of the try block that use the connection, in order
try_steps ==
  <<"to_sql acc_rej_crit", "to_sql ps_cw", "read_sql accept_reject_criteria_query",
    "to_sql ps_course", "read_sql courses_join_crosswalk_query", "to_sql reqs",
    "to_sql courses", "to_sql ac_criteria_met",
    "read_sql courses_join_sub_reqs_query">>

At(t, at, step, failed) ==
  task_pc' = [task_pc EXCEPT ![t] = [at |-> at, step |-> step, failed |-> failed]]

\* the tasks a worker thread is running
Running == {t \in Tasks : task_pc[t].at \notin {"pending", "returned", "raised"}}

InitFinalResult ==
  /\ pc = "mapped"
  /\ task_pc = [t \in Tasks |-> [at |-> "pending", step |-> 0, failed |-> FALSE]]
  /\ db_conn = [t \in Tasks |-> "none"]
  /\ files = {}
  /\ touched = [t \in Tasks |-> {}]
  /\ value = ""
  /\ normalized = ""
  /\ renormalized = ""
  /\ combos = <<>>
  /\ ps_req_des = <<>>
  /\ ps_cw = <<>>
  /\ raw = <<>>
  /\ sub_requirements = <<>>
  /\ pair = <<>>
  /\ accepted = FALSE
  /\ frame = <<>>
  /\ rerun = <<>>

\* lines 390-391: a free worker takes the task; sqlite3.connect creates the file
Connect(t) ==
  /\ task_pc[t].at = "pending"
  /\ Cardinality(Running) < num_workers
  /\ files' = files \cup {db_file_name(t)}
  /\ db_conn' = [db_conn EXCEPT ![t] = "open"]
  /\ touched' = [touched EXCEPT ![t] = @ \cup {db_file_name(t)}]
  /\ At(t, "connected", 0, FALSE)

\* lines 392-393: the cursor and the PRAGMA, before the try block
Pragma(t) ==
  /\ task_pc[t].at = "connected"
  /\ At(t, "try", 1, FALSE)
  /\ UNCHANGED <<db_conn, files, touched>>

\* one load or query of the try block succeeds; after the last, return
\* reqs_aug enters the finally block
StepDone(t) ==
  /\ task_pc[t].at = "try"
  /\ touched' = [touched EXCEPT ![t] = @ \cup {db_file_name(t)}]
  /\ IF task_pc[t].step < Len(try_steps)
     THEN At(t, "try", task_pc[t].step + 1, FALSE)
     ELSE At(t, "finally_close", 0, FALSE)
  /\ UNCHANGED <<db_conn, files>>

\* one load or query of the try block raises: the finally block runs
StepRaises(t) ==
  /\ task_pc[t].at = "try"
  /\ At(t, "finally_close", task_pc[t].step, TRUE)
  /\ UNCHANGED <<db_conn, files, touched>>

\* lines 432-433: cursor.close(); db_conn.close()
CloseConnection(t) ==
  /\ task_pc[t].at = "finally_close"
  /\ db_conn' = [db_conn EXCEPT ![t] = "closed"]
  /\ At(t, "finally_remove", task_pc[t].step, task_pc[t].failed)
  /\ UNCHANGED <<files, touched>>

\* line 434: os.remove(db_file_name), FileNotFoundError if the file is gone;
\* then the task leaves, returning or raising
RemoveFile(t) ==
  /\ task_pc[t].at = "finally_remove"
  /\ touched' = [touched EXCEPT ![t] = @ \cup {db_file_name(t)}]
  /\ IF db_file_name(t) \in files
     THEN /\ files' = files \ {db_file_name(t)}
          /\ At(t, IF task_pc[t].failed THEN "raised" ELSE "returned",
                task_pc[t].step, task_pc[t].failed)
     ELSE /\ files' = files
          /\ At(t, "raised", task_pc[t].step, TRUE)
  /\ UNCHANGED db_conn

NextFinalResult ==
  \E t \in Tasks :
    /\ \/ Connect(t)
       \/ Pragma(t)
       \/ StepDone(t)
       \/ StepRaises(t)
       \/ CloseConnection(t)
       \/ RemoveFile(t)
    /\ UNCHANGED <<pc, normalizerVars, splitterVars, crosswalkVars, subReqVars,
                   evaluatorVars, rerunVars>>

SpecFinalResult == InitFinalResult /\ [][NextFinalResult]_vars

\* the file named by map_index t
OwnFile(t) == <<"/opt/prefect/cremo-idp-sub-req-$", t, ".db">>

\* C12: in every interleaving each task connects to, writes and deletes only
\* the file named by its own map_index, no file is used by two tasks, and once
\* a task has left, by returning or by an error of a load or query step, its
\* connection is closed and its file does not exist.
C12_BatchIsolation ==
  /\ \A t \in Tasks : touched[t] \subseteq {OwnFile(t)}
  /\ \A t, u \in Tasks : t # u => touched[t] \cap touched[u] = {}
  /\ \A t \in Tasks :
       task_pc[t].at \in {"returned", "raised"} =>
         /\ db_conn[t] = "closed"
         /\ OwnFile(t) \notin files

C12_Witness ==
  /\ task_pc[0].at = "raised"
  /\ task_pc[0].step = 3
  /\ db_conn[0] = "closed"
  /\ task_pc[1].at = "try"
  /\ db_conn[1] = "open"
  /\ files = {OwnFile(1)}

====
